---- MODULE Spec2Model ----
(***************************************************************************)
(* A model of the in-memory TTL cache of main.go: the map `data`, its      *)
(* sync.RWMutex `mx`, the wall clock read by time.Now().Unix(), and the    *)
(* three methods Set, Get and Has, each run by a goroutine one statement   *)
(* (lock call, map access, clock read) at a time.                          *)
(***************************************************************************)
EXTENDS Integers, FiniteSets, TLC

\* ------------------------------------------------------------ bounds
\* The goroutines calling into the cache, the keys and the values they use.
Threads == {"g1", "g2"}
Keys == {"a", "b"}
\* The keys concurrent goroutines contend for.
HotKeys == {"a"}
Values == {"v1", "v2"}
\* The clock runs from 1 to MaxClock seconds.
MaxClock == 3
\* int64 scaled down to IntBits bits, two's complement.
IntBits == 4

MaxInt == 2 ^ (IntBits - 1) - 1
MinInt == -(2 ^ (IntBits - 1))
\* The ttl arguments callers pass: never expiring, one second, the largest integer.
TTLs == {0, 1, MaxInt}
\* The ttl arguments of the goroutines that contend: never expiring, one second.
HotTTLs == {0, 1}

\* ------------------------------------------------------------ constants of main.go
ErrKeyNotFound == "key not found"
ErrKeyExists == "key already exists"
ErrExpired == "key expired"
\* Go's nil (no error, no value) and the two booleans Has returns.
Nil == "nil"
GoTrue == "true"
GoFalse == "false"

\* CacheItem{value, expiration}
CacheItem(v, e) == [value |-> v, expiration |-> e]
\* The zero CacheItem, which a map read of a missing key yields.
ZeroItem == CacheItem(Nil, 0)

\* Signed addition of the machine integers: wraps around.
WrapAdd(x, y) == ((x + y - MinInt) % (2 ^ IntBits)) + MinInt

VARIABLES
    data,        \* c.data: a function from the keys present to their CacheItem
    readers,     \* c.mx: the goroutines holding the read lock
    writer,      \* c.mx: the goroutines holding the write lock (at most one)
    clock,       \* time.Now().Unix()
    pc,          \* each goroutine's position
    op,          \* the method a goroutine called: "Set", "Get", "Has"
    key,         \* its key argument
    value,       \* Set's value argument
    ttl,         \* Set's ttl argument
    d,           \* the local d of Set and Has
    ok,          \* the local ok of Set and Has
    expiration,  \* the local expiration of Set
    ret,         \* the value returned (Get: the value, Has: the boolean)
    err          \* the error returned

vars == <<data, readers, writer, clock, pc, op, key, value, ttl, d, ok,
          expiration, ret, err>>
locals == <<op, key, value, ttl, d, ok, expiration, ret, err>>
mx == <<readers, writer>>

\* ------------------------------------------------------------ the map
\* A variant of lines 102-104 with a slip: ok not looked at.
MapHas_Always(m, k) == TRUE

\* d, ok := c.data[key]
MapHas(m, k) == k \in DOMAIN m
MapGet(m, k) == IF k \in DOMAIN m THEN m[k] ELSE ZeroItem
\* A variant of lines 70-73 that keeps an entry already there.
MapPut_KeepExisting(m, k, item) ==
    IF k \in DOMAIN m THEN m
    ELSE [x \in DOMAIN m \cup {k} |-> IF x = k THEN item ELSE m[x]]

\* c.data[key] = item
MapPut(m, k, item) == [x \in DOMAIN m \cup {k} |-> IF x = k THEN item ELSE m[x]]

\* A variant of line 110 with a slip: the delete left out.
MapDelete_Forgotten(m, k) == m

\* A variant of line 110 that empties the map.
MapDelete_Clear(m, k) == << >>

\* delete(c.data, key)
MapDelete(m, k) == [x \in DOMAIN m \ {k} |-> m[x]]

\* ------------------------------------------------------------ the conditions
\* Variants of line 58 with a slip: the never-expiring case forgotten; the
\* expiration not looked at.
SetKeyExists_NoSentinel(isThere, item, now) == isThere /\ item.expiration > now
SetKeyExists_IgnoreExpiry(isThere, item, now) == isThere

\* Set, line 57-58: the key is there and not expired.
SetKeyExists(isThere, item, now) ==
    isThere /\ (item.expiration = 0 \/ item.expiration > now)

\* A variant of line 66 with a slip: the clock not added.
SetExpiration_TtlOnly(t, now) == IF t > 0 THEN t ELSE 0

\* Set, line 63-67: the expiration of the new entry.
SetExpiration(t, now) == IF t > 0 THEN WrapAdd(now, t) ELSE 0

\* A variant of line 108 with a slip: <= for <.
HasExpired_AtBoundary(item, now) == item.expiration # 0 /\ item.expiration <= now

\* Has, line 108: the entry has expired.
HasExpired(item, now) == item.expiration # 0 /\ item.expiration < now

\* ------------------------------------------------------------ sync.RWMutex
CanRLock == writer = {}
CanLock == writer = {} /\ readers = {}

\* ------------------------------------------------------------ Init
\* NewCache() with no options: an empty map, an unlocked mutex.
Init ==
    /\ data = << >>
    /\ readers = {}
    /\ writer = {}
    /\ clock = 1
    /\ pc = [t \in Threads |-> "idle"]
    /\ op = [t \in Threads |-> Nil]
    /\ key = [t \in Threads |-> Nil]
    /\ value = [t \in Threads |-> Nil]
    /\ ttl = [t \in Threads |-> 0]
    /\ d = [t \in Threads |-> ZeroItem]
    /\ ok = [t \in Threads |-> FALSE]
    /\ expiration = [t \in Threads |-> 0]
    /\ ret = [t \in Threads |-> Nil]
    /\ err = [t \in Threads |-> Nil]

\* ------------------------------------------------------------ calls
\* A goroutine calls c.Set(k, v, tt).
CallSet(t, k, v, tt) ==
    /\ pc[t] = "idle"
    /\ pc' = [pc EXCEPT ![t] = "SetRLock"]
    /\ op' = [op EXCEPT ![t] = "Set"]
    /\ key' = [key EXCEPT ![t] = k]
    /\ value' = [value EXCEPT ![t] = v]
    /\ ttl' = [ttl EXCEPT ![t] = tt]
    /\ UNCHANGED <<data, mx, clock, d, ok, expiration, ret, err>>

\* A goroutine calls c.Get(k): Get starts by calling c.Has(k).
CallGet(t, k) ==
    /\ pc[t] = "idle"
    /\ pc' = [pc EXCEPT ![t] = "HasRLock"]
    /\ op' = [op EXCEPT ![t] = "Get"]
    /\ key' = [key EXCEPT ![t] = k]
    /\ UNCHANGED <<data, mx, clock, value, ttl, d, ok, expiration, ret, err>>

\* A goroutine calls c.Has(k).
CallHas(t, k) ==
    /\ pc[t] = "idle"
    /\ pc' = [pc EXCEPT ![t] = "HasRLock"]
    /\ op' = [op EXCEPT ![t] = "Has"]
    /\ key' = [key EXCEPT ![t] = k]
    /\ UNCHANGED <<data, mx, clock, value, ttl, d, ok, expiration, ret, err>>

\* The caller has taken the result; the goroutine is free for its next call.
Return(t) ==
    /\ pc[t] = "done"
    /\ pc' = [pc EXCEPT ![t] = "idle"]
    /\ op' = [op EXCEPT ![t] = Nil]
    /\ key' = [key EXCEPT ![t] = Nil]
    /\ value' = [value EXCEPT ![t] = Nil]
    /\ ttl' = [ttl EXCEPT ![t] = 0]
    /\ ret' = [ret EXCEPT ![t] = Nil]
    /\ err' = [err EXCEPT ![t] = Nil]
    /\ UNCHANGED <<data, mx, clock, d, ok, expiration>>

\* ------------------------------------------------------------ Set
\* line 54: c.mx.RLock()
SetRLock(t) ==
    /\ pc[t] = "SetRLock"
    /\ CanRLock
    /\ readers' = readers \cup {t}
    /\ pc' = [pc EXCEPT ![t] = "SetRead"]
    /\ UNCHANGED <<data, writer, clock, locals>>

\* line 55: d, ok := c.data[key]
SetRead(t) ==
    /\ pc[t] = "SetRead"
    /\ d' = [d EXCEPT ![t] = MapGet(data, key[t])]
    /\ ok' = [ok EXCEPT ![t] = MapHas(data, key[t])]
    /\ pc' = [pc EXCEPT ![t] = "SetRUnlock"]
    /\ UNCHANGED <<data, mx, clock, op, key, value, ttl, expiration, ret, err>>

\* line 56: c.mx.RUnlock()
SetRUnlock(t) ==
    /\ pc[t] = "SetRUnlock"
    /\ readers' = readers \ {t}
    /\ pc' = [pc EXCEPT ![t] = "SetCheck"]
    /\ UNCHANGED <<data, writer, clock, locals>>

\* A variant of lines 57-73 with a slip: the entry written before the check.
SetCheck_WriteFirst(t) ==
    /\ pc[t] = "SetCheck"
    /\ data' = MapPut(data, key[t], CacheItem(value[t], 0))
    /\ IF SetKeyExists(ok[t], d[t], clock)
          THEN /\ err' = [err EXCEPT ![t] = ErrKeyExists]
               /\ pc' = [pc EXCEPT ![t] = "done"]
          ELSE /\ err' = err
               /\ pc' = [pc EXCEPT ![t] = "SetExpire"]
    /\ d' = [d EXCEPT ![t] = ZeroItem]
    /\ ok' = [ok EXCEPT ![t] = FALSE]
    /\ UNCHANGED <<mx, clock, op, key, value, ttl, expiration, ret>>

\* line 57-61: the key exists and is not expired: return ErrKeyExists.
\* (d and ok are not read after this statement; the model clears them.)
SetCheck(t) ==
    /\ pc[t] = "SetCheck"
    /\ IF SetKeyExists(ok[t], d[t], clock)
          THEN /\ err' = [err EXCEPT ![t] = ErrKeyExists]
               /\ pc' = [pc EXCEPT ![t] = "done"]
          ELSE /\ err' = err
               /\ pc' = [pc EXCEPT ![t] = "SetExpire"]
    /\ d' = [d EXCEPT ![t] = ZeroItem]
    /\ ok' = [ok EXCEPT ![t] = FALSE]
    /\ UNCHANGED <<data, mx, clock, op, key, value, ttl, expiration, ret>>

\* line 63-67: expiration = time.Now().Unix() + ttl if ttl > 0, else 0
SetExpire(t) ==
    /\ pc[t] = "SetExpire"
    /\ expiration' = [expiration EXCEPT ![t] = SetExpiration(ttl[t], clock)]
    /\ pc' = [pc EXCEPT ![t] = "SetLock"]
    /\ UNCHANGED <<data, mx, clock, op, key, value, ttl, d, ok, ret, err>>

\* line 69: c.mx.Lock()
SetLock(t) ==
    /\ pc[t] = "SetLock"
    /\ CanLock
    /\ writer' = {t}
    /\ pc' = [pc EXCEPT ![t] = "SetWrite"]
    /\ UNCHANGED <<data, readers, clock, locals>>

\* line 70-73: c.data[key] = CacheItem{value, expiration}
SetWrite(t) ==
    /\ pc[t] = "SetWrite"
    /\ data' = MapPut(data, key[t], CacheItem(value[t], expiration[t]))
    /\ pc' = [pc EXCEPT ![t] = "SetUnlock"]
    /\ UNCHANGED <<mx, clock, locals>>

\* line 74-75: c.mx.Unlock(); return nil
\* (expiration is not read after the write; the model clears it.)
SetUnlock(t) ==
    /\ pc[t] = "SetUnlock"
    /\ writer' = writer \ {t}
    /\ expiration' = [expiration EXCEPT ![t] = 0]
    /\ err' = [err EXCEPT ![t] = Nil]
    /\ pc' = [pc EXCEPT ![t] = "done"]
    /\ UNCHANGED <<data, readers, clock, op, key, value, ttl, d, ok, ret>>

\* ------------------------------------------------------------ Has
\* A variant of lines 105-115 with a slip: true returned on every path.
HasReturns_True(t, b, e) ==
    /\ d' = [d EXCEPT ![t] = ZeroItem]
    /\ ok' = [ok EXCEPT ![t] = FALSE]
    /\ IF op[t] = "Has"
          THEN /\ ret' = [ret EXCEPT ![t] = GoTrue]
               /\ err' = [err EXCEPT ![t] = e]
               /\ pc' = [pc EXCEPT ![t] = "done"]
          ELSE /\ ret' = [ret EXCEPT ![t] = Nil]
               /\ err' = [err EXCEPT ![t] = e]
               /\ pc' = [pc EXCEPT ![t] = IF e # Nil THEN "done" ELSE "GetRLock"]

\* What follows Has's return: Has's caller gets (b, e); Get, line 84-87, returns
\* (nil, e) when e is an error and goes on to its own read otherwise.
HasReturns(t, b, e) ==
    /\ d' = [d EXCEPT ![t] = ZeroItem]
    /\ ok' = [ok EXCEPT ![t] = FALSE]
    /\ IF op[t] = "Has"
          THEN /\ ret' = [ret EXCEPT ![t] = b]
               /\ err' = [err EXCEPT ![t] = e]
               /\ pc' = [pc EXCEPT ![t] = "done"]
          ELSE /\ ret' = [ret EXCEPT ![t] = Nil]
               /\ err' = [err EXCEPT ![t] = e]
               /\ pc' = [pc EXCEPT ![t] = IF e # Nil THEN "done" ELSE "GetRLock"]

\* line 101: c.mx.RLock()
HasRLock(t) ==
    /\ pc[t] = "HasRLock"
    /\ CanRLock
    /\ readers' = readers \cup {t}
    /\ pc' = [pc EXCEPT ![t] = "HasRead"]
    /\ UNCHANGED <<data, writer, clock, locals>>

\* line 102: d, ok := c.data[key]
HasRead(t) ==
    /\ pc[t] = "HasRead"
    /\ d' = [d EXCEPT ![t] = MapGet(data, key[t])]
    /\ ok' = [ok EXCEPT ![t] = MapHas(data, key[t])]
    /\ pc' = [pc EXCEPT ![t] = "HasRUnlock"]
    /\ UNCHANGED <<data, mx, clock, op, key, value, ttl, expiration, ret, err>>

\* A variant of line 103 that goes on without releasing the read lock.
HasRUnlock_Forgotten(t) ==
    /\ pc[t] = "HasRUnlock"
    /\ pc' = [pc EXCEPT ![t] = "HasCheck"]
    /\ UNCHANGED <<data, mx, clock, locals>>

\* line 103: c.mx.RUnlock()
HasRUnlock(t) ==
    /\ pc[t] = "HasRUnlock"
    /\ readers' = readers \ {t}
    /\ pc' = [pc EXCEPT ![t] = "HasCheck"]
    /\ UNCHANGED <<data, writer, clock, locals>>

\* line 104-108 and 115: not found, expired (go on to delete), or found.
\* (d and ok are not read after this statement; the model clears them.)
HasCheck(t) ==
    /\ pc[t] = "HasCheck"
    /\ IF ~ok[t]
          THEN HasReturns(t, GoFalse, ErrKeyNotFound)
          ELSE IF HasExpired(d[t], clock)
                  THEN /\ pc' = [pc EXCEPT ![t] = "HasLock"]
                       /\ d' = [d EXCEPT ![t] = ZeroItem]
                       /\ ok' = [ok EXCEPT ![t] = FALSE]
                       /\ UNCHANGED <<ret, err>>
                  ELSE HasReturns(t, GoTrue, Nil)
    /\ UNCHANGED <<data, mx, clock, op, key, value, ttl, expiration>>

\* A variant of line 109 that takes the lock in shared mode.
HasLock_Shared(t) ==
    /\ pc[t] = "HasLock"
    /\ CanRLock
    /\ readers' = readers \cup {t}
    /\ pc' = [pc EXCEPT ![t] = "HasDelete"]
    /\ UNCHANGED <<data, writer, clock, locals>>

\* line 109: c.mx.Lock()
HasLock(t) ==
    /\ pc[t] = "HasLock"
    /\ CanLock
    /\ writer' = {t}
    /\ pc' = [pc EXCEPT ![t] = "HasDelete"]
    /\ UNCHANGED <<data, readers, clock, locals>>

\* line 110: delete(c.data, key)
HasDelete(t) ==
    /\ pc[t] = "HasDelete"
    /\ data' = MapDelete(data, key[t])
    /\ pc' = [pc EXCEPT ![t] = "HasUnlock"]
    /\ UNCHANGED <<mx, clock, locals>>

\* line 111-112: c.mx.Unlock(); return false, ErrExpired
HasUnlock(t) ==
    /\ pc[t] = "HasUnlock"
    /\ writer' = writer \ {t}
    /\ HasReturns(t, GoFalse, ErrExpired)
    /\ UNCHANGED <<data, readers, clock, op, key, value, ttl, expiration>>

\* ------------------------------------------------------------ Get
\* line 90: c.mx.RLock()
GetRLock(t) ==
    /\ pc[t] = "GetRLock"
    /\ CanRLock
    /\ readers' = readers \cup {t}
    /\ pc' = [pc EXCEPT ![t] = "GetRead"]
    /\ UNCHANGED <<data, writer, clock, locals>>

\* line 93: the operand c.data[key].value of the return
GetRead(t) ==
    /\ pc[t] = "GetRead"
    /\ ret' = [ret EXCEPT ![t] = MapGet(data, key[t]).value]
    /\ pc' = [pc EXCEPT ![t] = "GetRUnlock"]
    /\ UNCHANGED <<data, mx, clock, op, key, value, ttl, d, ok, expiration, err>>

\* line 91: the deferred c.mx.RUnlock(), and the return of (value, nil)
GetRUnlock(t) ==
    /\ pc[t] = "GetRUnlock"
    /\ readers' = readers \ {t}
    /\ err' = [err EXCEPT ![t] = Nil]
    /\ pc' = [pc EXCEPT ![t] = "done"]
    /\ UNCHANGED <<data, writer, clock, op, key, value, ttl, d, ok, expiration, ret>>

\* ------------------------------------------------------------ the clock
\* A variant in which the passing second sweeps the entries it expires.
Tick_Sweeping ==
    /\ clock < MaxClock
    /\ clock' = clock + 1
    /\ data' = [k \in {x \in DOMAIN data : ~HasExpired(data[x], clock + 1)}
                  |-> data[k]]
    /\ UNCHANGED <<mx, pc, locals>>

\* A second passes.
Tick ==
    /\ clock < MaxClock
    /\ clock' = clock + 1
    /\ UNCHANGED <<data, mx, pc, locals>>

\* ------------------------------------------------------------ Next
\* One statement of one goroutine.
Step(t) ==
    \/ SetRLock(t) \/ SetRead(t) \/ SetRUnlock(t) \/ SetCheck(t)
    \/ SetExpire(t) \/ SetLock(t) \/ SetWrite(t) \/ SetUnlock(t)
    \/ HasRLock(t) \/ HasRead(t) \/ HasRUnlock(t) \/ HasCheck(t)
    \/ HasLock(t) \/ HasDelete(t) \/ HasUnlock(t)
    \/ GetRLock(t) \/ GetRead(t) \/ GetRUnlock(t)
    \/ Return(t)

\* A goroutine calls one of the three methods with a key of K and a ttl of T.
Call(t, K, T) ==
    \/ \E k \in K, v \in Values, tt \in T : CallSet(t, k, v, tt)
    \/ \E k \in K : CallGet(t, k)
    \/ \E k \in K : CallHas(t, k)

\* Goroutines call and run concurrently, contending for the keys of HotKeys.
Next ==
    \/ \E t \in Threads : Call(t, HotKeys, HotTTLs)
    \/ \E t \in Threads : Step(t)
    \/ Tick

Spec == Init /\ [][Next]_vars

\* Spec under fair scheduling: a goroutine whose next statement can run again
\* and again eventually runs it. sync.RWMutex does not starve a blocked Lock or
\* RLock (a pending Lock holds back new readers), hence strong fairness.
SpecFair == Spec /\ \A t \in Threads : SF_vars(Step(t))

\* One call at a time, on any key: a call starts only when no other call is in
\* progress (the callers of the scenarios of the specification).
Quiet == \A t \in Threads : pc[t] = "idle"

NextSeq ==
    \/ \E t \in Threads : Quiet /\ Call(t, Keys, TTLs)
    \/ \E t \in Threads : Step(t)
    \/ Tick

SpecSeq == Init /\ [][NextSeq]_vars

\* ============================================================ the claims
\* Goroutine t executes the statement at position p in this step.
At(t, p) == pc[t] = p /\ pc'[t] # p
\* The store holds an entry for k.
Present(k) == k \in DOMAIN data
\* The store's entry for k is past its expiration at clock value now.
Elapsed(k, now) ==
    k \in DOMAIN data /\ data[k].expiration # 0 /\ data[k].expiration < now
\* What Get and Has hand back beside the error, when the error is not nil.
NoResult(t) == IF op[t] = "Has" THEN GoFalse ELSE Nil

\* C1 (no-clobber while live). With one call at a time, a Set on a key whose
\* stored entry never expires (expiration 0) or has its expiration still ahead of
\* the clock the Set reads at line 58 returns ErrKeyExists and leaves the whole
\* store, so the value v1 under the key, as it was.
C1_NoClobberWhileLive ==
    [][\A t \in Threads :
          (/\ At(t, "SetCheck")
           /\ Present(key[t])
           /\ (data[key[t]].expiration = 0 \/ clock < data[key[t]].expiration))
          => (pc'[t] = "done" /\ err'[t] = ErrKeyExists /\ data' = data)]_vars

\* C1's case: a Set of another value has been refused, and the entry whose ttl
\* window is still open holds the first value.
C1_Witness ==
    \E t \in Threads :
        /\ pc[t] = "done" /\ op[t] = "Set" /\ err[t] = ErrKeyExists
        /\ Present(key[t])
        /\ data[key[t]].value # value[t]
        /\ data[key[t]].expiration > clock

\* C2 (overwrite after expiry). With one call at a time, a Set on a key whose
\* stored entry has an expiration strictly earlier than the clock it reads is not
\* refused: it goes on to write, returns nil and leaves its value v2 under the
\* key; and a Get that finds an entry not yet expired returns that entry's
\* value with a nil error.
C2_OverwriteAfterExpiry ==
    [][\A t \in Threads :
          /\ (At(t, "SetCheck") /\ Elapsed(key[t], clock)) => pc'[t] = "SetExpire"
          /\ At(t, "SetExpire") => pc'[t] = "SetLock"
          /\ At(t, "SetLock") => pc'[t] = "SetWrite"
          /\ At(t, "SetWrite") => pc'[t] = "SetUnlock"
          /\ At(t, "SetUnlock") =>
                /\ pc'[t] = "done" /\ err'[t] = Nil
                /\ key[t] \in DOMAIN data' /\ data'[key[t]].value = value[t]
          /\ (At(t, "HasCheck") /\ op[t] = "Get" /\ Present(key[t])
                  /\ ~Elapsed(key[t], clock)) => pc'[t] = "GetRLock"
          /\ At(t, "GetRLock") => pc'[t] = "GetRead"
          /\ At(t, "GetRead") => pc'[t] = "GetRUnlock"
          /\ At(t, "GetRUnlock") =>
                /\ pc'[t] = "done" /\ err'[t] = Nil
                /\ Present(key[t]) /\ ret'[t] = data[key[t]].value]_vars

\* C2's case: a Set has passed its check and is about to write over an expired
\* entry that holds another value.
C2_Witness ==
    \E t \in Threads :
        /\ pc[t] = "SetWrite"
        /\ Elapsed(key[t], clock)
        /\ data[key[t]].value # value[t]

\* C3 (lazy deletion, sequentially). With one call at a time, a Get or Has on a
\* key whose stored entry is past its expiration goes on to delete the entry and
\* returns ErrExpired (Has: false, ErrExpired) with the key gone from the store;
\* and a Get or Has on a key that is not in the store, as the key is right after
\* that, returns ErrKeyNotFound.
C3_LazyDeletion ==
    [][\A t \in Threads :
          /\ (At(t, "HasCheck") /\ Elapsed(key[t], clock)) => pc'[t] = "HasLock"
          /\ At(t, "HasLock") => pc'[t] = "HasDelete"
          /\ At(t, "HasDelete") => (pc'[t] = "HasUnlock" /\ key[t] \notin DOMAIN data')
          /\ At(t, "HasUnlock") =>
                /\ pc'[t] = "done" /\ err'[t] = ErrExpired /\ ret'[t] = NoResult(t)
                /\ key[t] \notin DOMAIN data'
          /\ (At(t, "HasCheck") /\ ~Present(key[t])) =>
                /\ pc'[t] = "done" /\ err'[t] = ErrKeyNotFound
                /\ ret'[t] = NoResult(t)]_vars

\* C3's case: a Get or Has has returned ErrExpired and the key is gone.
C3_Witness ==
    \E t \in Threads :
        /\ pc[t] = "done" /\ op[t] \in {"Get", "Has"} /\ err[t] = ErrExpired
        /\ ~Present(key[t])

\* C4 (never-expiring entries), as claimed for every execution: an entry with
\* the expiration 0 stays under its key, unchanged, in every step but the write
\* of a Set on that key; a Get whose Has found such an entry goes on to its read;
\* and the read returns the value under the key.
C4_NeverExpiring ==
    [][/\ \A k \in Keys :
             (Present(k) /\ data[k].expiration = 0) =>
                 /\ k \in DOMAIN data'
                 /\ (data'[k] = data[k]
                        \/ \E t \in Threads : At(t, "SetWrite") /\ key[t] = k)
       /\ \A t \in Threads :
             /\ (At(t, "HasCheck") /\ op[t] = "Get" /\ ok[t] /\ d[t].expiration = 0)
                    => pc'[t] = "GetRLock"
             /\ (At(t, "GetRead") /\ Present(key[t]))
                    => ret'[t] = data[key[t]].value]_vars

\* C5 (Get returns the stored value), as claimed for every execution: when Get
\* reads the store at line 93 the key is present and Get returns the value of its
\* entry; a Get that returns a nil error returns a value that a Set stored.
C5_GetReturnsStoredValue ==
    [][\A t \in Threads :
          /\ At(t, "GetRead") =>
                (Present(key[t]) /\ ret'[t] = data[key[t]].value)
          /\ At(t, "GetRUnlock") =>
                (err'[t] = Nil /\ ret'[t] \in Values)]_vars

\* C6 (Has decides by the entry and the clock). With one call at a time, Has on a
\* key that is absent returns (false, ErrKeyNotFound); on a key whose entry has
\* expiration 0 or an expiration not earlier than the clock read at line 108 it
\* returns (true, nil); both leave the store as it was. On an entry whose
\* expiration is not 0 and earlier than the clock it deletes the key's entry,
\* only that, and returns (false, ErrExpired).
C6_HasDecides ==
    [][\A t \in Threads :
          op[t] = "Has" =>
             /\ (At(t, "HasCheck") /\ ~Present(key[t])) =>
                   /\ pc'[t] = "done" /\ data' = data
                   /\ ret'[t] = GoFalse /\ err'[t] = ErrKeyNotFound
             /\ (At(t, "HasCheck") /\ Present(key[t])
                   /\ (data[key[t]].expiration = 0 \/ data[key[t]].expiration >= clock)) =>
                   /\ pc'[t] = "done" /\ data' = data
                   /\ ret'[t] = GoTrue /\ err'[t] = Nil
             /\ (At(t, "HasCheck") /\ Present(key[t])
                   /\ data[key[t]].expiration # 0 /\ data[key[t]].expiration < clock) =>
                   (pc'[t] = "HasLock" /\ data' = data)
             /\ At(t, "HasLock") => (pc'[t] = "HasDelete" /\ data' = data)
             /\ At(t, "HasDelete") =>
                   /\ pc'[t] = "HasUnlock"
                   /\ data' = [x \in DOMAIN data \ {key[t]} |-> data[x]]
             /\ At(t, "HasUnlock") =>
                   /\ pc'[t] = "done" /\ data' = data
                   /\ ret'[t] = GoFalse /\ err'[t] = ErrExpired]_vars

\* C6's case: Has has returned (true, nil) for an entry whose expiration is the
\* current clock value.
C6_Witness ==
    \E t \in Threads :
        /\ pc[t] = "done" /\ op[t] = "Has" /\ ret[t] = GoTrue /\ err[t] = Nil
        /\ Present(key[t])
        /\ data[key[t]].expiration = clock

\* C7 (absent keys). NewCache builds a store with no key. With one call at a
\* time, a Get or Has on a key that is not in the store (never Set, or deleted)
\* returns ErrKeyNotFound (Has: false, ErrKeyNotFound), and no statement of a Get
\* or Has adds a key to the store.
C7_AbsentKeys ==
    /\ DOMAIN data = {}
    /\ [][\A t \in Threads :
             op[t] \in {"Get", "Has"} =>
                /\ (At(t, "HasCheck") /\ ~Present(key[t])) =>
                      /\ pc'[t] = "done" /\ err'[t] = ErrKeyNotFound
                      /\ ret'[t] = NoResult(t)
                /\ pc'[t] # pc[t] => DOMAIN data' \subseteq DOMAIN data]_vars

\* C7's case: a Get or Has has returned ErrKeyNotFound for a key not in the
\* store while the store holds another key.
C7_Witness ==
    \E t \in Threads :
        /\ pc[t] = "done" /\ op[t] \in {"Get", "Has"} /\ err[t] = ErrKeyNotFound
        /\ ~Present(key[t])
        /\ DOMAIN data # {}

\* C8 (a failing Set changes nothing). With one call at a time, ErrKeyExists is
\* returned only by the statement at line 59, and from the call of a Set up to
\* and including that statement no step changes the store: every key keeps its
\* value and its expiration.
C8_FailingSetChangesNothing ==
    [][\A t \in Threads :
          /\ (err'[t] = ErrKeyExists /\ err[t] # ErrKeyExists) => At(t, "SetCheck")
          /\ (\/ pc[t] \in {"SetRLock", "SetRead", "SetRUnlock", "SetCheck"}
              \/ pc'[t] \in {"SetRLock", "SetRead", "SetRUnlock", "SetCheck"})
                => data' = data]_vars

\* C8's case: a Set has been refused while the store holds the key and another.
C8_Witness ==
    \E t \in Threads :
        /\ pc[t] = "done" /\ op[t] = "Set" /\ err[t] = ErrKeyExists
        /\ Present(key[t])
        /\ \E k \in Keys : k # key[t] /\ Present(k)

\* C9 (expiration written by Set). The expiration a Set computes at clock value
\* t is 0 when ttl = 0 and, when ttl > 0, t + ttl as a machine integer (t + ttl
\* itself when that fits), which is not 0; the entry it writes has its value and
\* that expiration. An entry with a nonzero expiration e is expired for Has at
\* exactly the clock values greater than e, and that is how Has decides.
C9_ExpirationWritten ==
    [][\A t \in Threads :
          /\ At(t, "SetExpire") =>
                LET e == expiration'[t]
                    sum == clock + ttl[t]
                IN  IF ttl[t] > 0
                       THEN /\ e \in MinInt..MaxInt
                            /\ (e - sum) % (2 ^ IntBits) = 0
                            /\ (sum <= MaxInt => e = sum)
                            /\ e # 0
                            /\ \A c \in MinInt..MaxInt :
                                  HasExpired(CacheItem(value[t], e), c) <=> c > e
                       ELSE e = 0
          /\ At(t, "SetWrite") =>
                /\ key[t] \in DOMAIN data'
                /\ data'[key[t]] = [value |-> value[t], expiration |-> expiration[t]]
          /\ (At(t, "HasCheck") /\ ok[t] /\ d[t].expiration # 0) =>
                (pc'[t] = "HasLock" <=> clock > d[t].expiration)]_vars

\* C9's case: a Set with ttl > 0 has returned nil and its entry, with an
\* expiration ahead of the clock, is in the store.
C9_Witness ==
    \E t \in Threads :
        /\ pc[t] = "done" /\ op[t] = "Set" /\ err[t] = Nil /\ ttl[t] > 0
        /\ Present(key[t])
        /\ data[key[t]].value = value[t]
        /\ data[key[t]].expiration > clock

\* C10 (failure signals per operation). A Set that has returned has returned nil
\* or ErrKeyExists; a Get or Has has returned nil, ErrKeyNotFound or ErrExpired;
\* and Has has returned true exactly when its error is nil.
C10_FailureSignals ==
    \A t \in Threads :
        pc[t] = "done" =>
           /\ op[t] = "Set" => err[t] \in {Nil, ErrKeyExists}
           /\ op[t] \in {"Get", "Has"} => err[t] \in {Nil, ErrKeyNotFound, ErrExpired}
           /\ op[t] = "Has" =>
                 /\ ret[t] \in {GoTrue, GoFalse}
                 /\ ret[t] = GoTrue <=> err[t] = Nil

\* C10's case: the two goroutines have returned from a Has with ErrExpired and
\* from a Set with ErrKeyExists.
C10_Witness ==
    \E t, u \in Threads :
        /\ pc[t] = "done" /\ op[t] = "Has" /\ ret[t] = GoFalse /\ err[t] = ErrExpired
        /\ pc[u] = "done" /\ op[u] = "Set" /\ err[u] = ErrKeyExists

\* C11 (entries are removed or replaced only when expired), as claimed for every
\* execution: when the insert of a Set (line 70) or the delete of a Has or Get
\* (line 110) takes effect on a key, the key is absent or holds an entry whose
\* expiration is not 0 and strictly earlier than the clock.
C11_WritesOnlyWhenExpired ==
    [][\A t \in Threads :
          (At(t, "SetWrite") \/ At(t, "HasDelete")) =>
             (~Present(key[t]) \/ Elapsed(key[t], clock))]_vars

\* C12 (Set race window). A Set that has passed its check at line 57 does not
\* look at the store again: when its insert takes effect after the insert of
\* another Set on the same key that has returned or is returning nil, the store
\* holds the later Set's value and expiration, the earlier Set's result stays
\* nil, and the later Set returns nil too.
C12_SetRace ==
    [][\A t \in Threads :
          /\ At(t, "SetWrite") =>
                \A u \in Threads \ {t} :
                   (/\ op[u] = "Set" /\ key[u] = key[t]
                    /\ pc[u] \in {"SetUnlock", "done"} /\ err[u] = Nil)
                   => /\ data'[key[t]] = CacheItem(value[t], expiration[t])
                      /\ err'[u] = Nil
                      /\ pc'[t] = "SetUnlock"
          /\ At(t, "SetUnlock") => (pc'[t] = "done" /\ err'[t] = Nil)]_vars

\* C12's case: two Sets of different values on one key, both with ttl 0, have
\* both returned nil (an entry with ttl 0 never expires, so the second to write
\* passed its check before the first wrote), and the store holds one value.
C12_Witness ==
    \E t, u \in Threads :
        /\ t # u
        /\ pc[t] = "done" /\ op[t] = "Set" /\ err[t] = Nil /\ ttl[t] = 0
        /\ pc[u] = "done" /\ op[u] = "Set" /\ err[u] = Nil /\ ttl[u] = 0
        /\ key[t] = key[u] /\ value[t] # value[u]
        /\ Present(key[t])
        /\ data[key[t]] = CacheItem(value[u], 0)

\* C13 (KeyExpired exactly once per expired entry), as claimed across all
\* threads: a Has or Get that found the entry of its key expired and is about
\* to delete is the only call on that key past the check of line 108 (every
\* call past that check returns KeyExpired), and its delete removes an entry
\* that is in the store.
C13_ExpiredOnce ==
    [][\A t \in Threads :
          At(t, "HasDelete") =>
             /\ Present(key[t])
             /\ \A u \in Threads \ {t} :
                   ~(/\ key[u] = key[t]
                     /\ op[u] \in {"Get", "Has"}
                     /\ pc[u] \in {"HasLock", "HasDelete", "HasUnlock"})]_vars

\* C14 (locking discipline): a goroutine at a read of the map (lines 55, 102,
\* 93) holds the lock in shared mode, a goroutine at an insert or delete (lines
\* 70, 110) holds it in exclusive mode, at most one goroutine holds it in
\* exclusive mode, and none holds it in shared mode while one holds it in
\* exclusive mode.
C14_LockingDiscipline ==
    /\ \A t \in Threads :
          /\ pc[t] \in {"SetRead", "HasRead", "GetRead"} => t \in readers
          /\ pc[t] \in {"SetWrite", "HasDelete"} => writer = {t}
    /\ Cardinality(writer) <= 1
    /\ writer # {} => readers = {}

\* C14's case: one goroutine is at its delete holding the lock in exclusive
\* mode while the other waits for the lock in shared mode.
C14_Witness ==
    \E t, u \in Threads :
        /\ pc[t] = "HasDelete" /\ writer = {t}
        /\ pc[u] \in {"SetRLock", "HasRLock", "GetRLock"}

\* C15 (no deadlock, every call returns): a goroutine that requests the lock
\* (lines 54, 69, 101, 109, 90) holds it in neither mode, a goroutine whose call
\* has returned holds it in neither mode, and under fair scheduling every call
\* that was made returns.
C15_EveryCallReturns ==
    /\ [](\A t \in Threads :
            pc[t] \in {"SetRLock", "SetLock", "HasRLock", "HasLock", "GetRLock",
                       "done", "idle"}
               => t \notin readers \cup writer)
    /\ \A t \in Threads : (pc[t] # "idle") ~> (pc[t] = "done")

\* C15's case: a goroutine is blocked at its request for the write lock while the
\* other goroutine holds the lock.
C15_Witness ==
    \E t, u \in Threads :
        /\ t # u
        /\ pc[t] \in {"SetLock", "HasLock"}
        /\ u \in readers \cup writer

\* C16 (lazy expiration): a step in which the clock advances leaves the store
\* as it is, and the entry of a key k whose expiration has elapsed is removed or
\* replaced only by the insert of a Set on k or the delete of a Get or Has on
\* k; a call on another key leaves it in place.
C16_LazyExpiration ==
    [][/\ clock' # clock => data' = data
       /\ \A k \in Keys :
             (/\ Elapsed(k, clock)
              /\ (k \notin DOMAIN data' \/ data'[k] # data[k]))
             => \E t \in Threads :
                   /\ key[t] = k
                   /\ At(t, "SetWrite") \/ At(t, "HasDelete")]_vars

\* C16's case: an entry whose expiration has elapsed is still in the store after
\* a Get or Has on another key returned KeyExpired and removed that key.
C16_Witness ==
    \E t \in Threads, k \in Keys :
        /\ Elapsed(k, clock)
        /\ pc[t] = "done" /\ op[t] \in {"Get", "Has"} /\ err[t] = ErrExpired
        /\ key[t] # k
        /\ ~Present(key[t])

\* C17 (reads do not mutate unless they discover expiry): a statement of a Get
\* or Has on key k leaves the whole store unchanged, except the delete of line
\* 110, which removes k and leaves every other key's entry as it is; and a Get
\* or Has returns KeyExpired exactly when it returns from line 112, after that
\* delete, so a call that returns success or KeyNotFound has run no delete.
C17_ReadsDoNotMutate ==
    [][\A t \in Threads :
          (op[t] \in {"Get", "Has"} /\ pc'[t] # pc[t] /\ pc[t] # "done") =>
             /\ IF pc[t] = "HasDelete"
                   THEN /\ DOMAIN data' = DOMAIN data \ {key[t]}
                        /\ \A k \in DOMAIN data' : data'[k] = data[k]
                   ELSE data' = data
             /\ pc'[t] = "done" =>
                   (err'[t] = ErrExpired <=> pc[t] = "HasUnlock")
             /\ pc'[t] = "HasUnlock" <=> pc[t] = "HasDelete"]_vars

\* C17's case: a Get or Has has returned KeyExpired, its key is gone, and the
\* live entry of another key is still in the store.
C17_Witness ==
    \E t \in Threads, k \in Keys :
        /\ pc[t] = "done" /\ op[t] \in {"Get", "Has"} /\ err[t] = ErrExpired
        /\ ~Present(key[t])
        /\ k # key[t] /\ Present(k) /\ ~Elapsed(k, clock)

\* C18 (Set and Has agree on which entries are live): when a Set decides at
\* line 57 on an entry it found, it fails with KeyExists exactly when the check
\* of Has at line 108, on the same entry at the same clock value, finds the
\* entry not expired (Has returns true, nil), the clock value equal to the
\* entry's expiration included.
C18_SetAndHasAgree ==
    [][\A t \in Threads :
          (At(t, "SetCheck") /\ ok[t]) =>
             ((pc'[t] = "done" /\ err'[t] = ErrKeyExists)
                 <=> ~HasExpired(d[t], clock))]_vars

\* C19 (a positive ttl yields a future, finite expiration): the expiration that
\* line 65 computes for a ttl > 0 is greater than the clock and is not 0, so
\* the entry is not expired for a Has at that clock value; a ttl that is not
\* positive gives the sentinel 0.
C19_PositiveTtlIsFuture ==
    [][\A t \in Threads :
          At(t, "SetExpire") =>
             IF ttl[t] > 0
                THEN /\ expiration'[t] > clock
                     /\ expiration'[t] # 0
                     /\ ~HasExpired(CacheItem(value[t], expiration'[t]), clock)
                ELSE expiration'[t] = 0]_vars

====
